---- MODULE Spec2Model ----
(***************************************************************************)
(* Ekodi chat client: the voice capture, voice-activity detection and      *)
(* playback pipeline of frontend/src/pages/Chat.jsx, as a state machine of *)
(* the browser event loop.  Every action is one task of the event loop: a  *)
(* click handler, a promise continuation, a timer callback or a media      *)
(* event handler, run to completion.  The static demo client               *)
(* (tts/server/static/js/app.js) has its own capture and playback code,    *)
(* modelled beside it: its variables and actions are prefixed d / Demo.    *)
(***************************************************************************)
EXTENDS Integers, Sequences, FiniteSets, TLC

(* ------------------------------ bounds --------------------------------- *)
\* capture sessions (calls of toggleRecording that reach getUserMedia)
MaxSessions == 2
\* timer periods a VAD monitor is followed for
MaxPolls == 27
\* chunks held in chunksRef.current
MaxChunks == 2
\* calls of playAudio
MaxPlays == 3

(* ------------------------- program constants --------------------------- *)
VAD_SILENCE_THRESHOLD == 12
VAD_SILENCE_DURATION == 1800
VAD_MIN_SPEECH_TIME == 600
VAD_CHECK_INTERVAL == 100
MIN_BLOB_SIZE == 5000
\* JavaScript null (a time stamp or a size that is not set)
Null == -1

Sessions == 1..MaxSessions
Plays == 1..MaxPlays

\* analyser snapshots (getByteFrequencyData), bins in 0..255
Snapshots == { <<0, 0>>, <<11, 12>>, <<12, 12>> }
\* animation frames requested by one AudioWaveform instance
MaxFrames == 5
\* runs of the effect of one AudioWaveform instance that start a draw loop
MaxEffects == 3
\* busy events dispatched to the banner
MaxEvents == 3
\* values of one frequency bin (a Uint8Array element)
MaxBin == 255
\* CSS heights of the canvas, px (0: not laid out; 28: the recording row)
CanvasHeights == { 0, 1, 28, 32 }
\* values of window.devicePixelRatio (0: absent)
PixelRatios == { 0, 1, 2, 3 }
\* what one draw sees: << bin value, CSS height of the canvas, devicePixelRatio >>
Scenes == (0..MaxBin) \X CanvasHeights \X PixelRatios
FrameIds == 1..MaxFrames
Effects == 1..MaxEffects
\* ids of the messages whose audio is played
MsgIds == { 1, 2 }
\* how the synchronous part of toggleRecording after getUserMedia may throw
Failures == { "none", "recorder", "context", "start" }

VARIABLES
  mounted,          \* the Chat component is mounted
  now,              \* Date.now(), ms
  mic,              \* what an analyser on the microphone reads now (the bins)
  recording,        \* useState: recording
  loading,          \* useState: loading
  messages,         \* useState: messages, as the number of entries with each placeholder id
  recAnalyser,      \* useState: recAnalyser (0 = null, else the session owning it)
  mediaRecorderRef, \* useRef: the session whose MediaRecorder it holds (0 = null)
  chunksRef,        \* useRef: the chunks in chunksRef.current, << session, size >>
  recAudioCtxRef,   \* useRef: the session whose AudioContext it holds (0 = null)
  vadRef,           \* useRef: the session whose interval id it holds (0 = null)
  nextSession,      \* sessions started so far + 1
  phase,            \* per session: its MediaRecorder / getUserMedia state
  stream,           \* per session: its MediaStream tracks
  recCtx,           \* per session: its AudioContext
  vadTimer,         \* per session: its setInterval timer
  startTime,        \* per session: closure variable startTime
  silentSince,      \* per session: closure variable silentSince
  inflight,         \* voice-chat requests awaiting their response
  hist,             \* per session: history of what happened (observation only)
  audioCtxRef,      \* useRef: the playback whose AudioContext it holds (0 = null)
  playingMsgId,     \* useState: playingMsgId (0 = null)
  playAnalyser,     \* useState: playAnalyser (0 = null, else the playback owning it)
  nextPlay,         \* calls of playAudio so far + 1
  audio,            \* per playback: its Audio element
  playCtx,          \* per playback: its AudioContext
  playMsg,          \* per playback: the msgId it was started with
  dIsRecording,     \* demo: state.isRecording
  dIsLoading,       \* demo: state.isLoading
  dIsPlaying,       \* demo: state.isPlaying
  dCurrentAudio,    \* demo: state.currentAudio (0 = null, else the playback)
  dMediaRecorder,   \* demo: mediaRecorder (0 = null, else the session)
  dAudioChunks,     \* demo: the chunks in audioChunks, << session, size >>
  dNextSession,     \* demo: calls of startRec that reached getUserMedia + 1
  dPhase,           \* demo, per session: its MediaRecorder / getUserMedia state
  dStream,          \* demo, per session: its MediaStream tracks
  dNextPlay,        \* demo: Audio elements created so far + 1
  dAudio,           \* demo, per playback: its Audio element
  dInflight,        \* demo: voice-chat requests awaiting their response
  dHist,            \* demo, per session: history (observation only)
  input,            \* useState: input holds text that is not blank
  textInflight,     \* chat requests of sendMessage awaiting their response
  wfMounted,        \* waveform: the AudioWaveform instance is mounted
  wfOn,             \* waveform: props analyserNode && active
  wfCleanup,        \* waveform: the effect run whose cleanup is registered (0 = none)
  rafRef,           \* waveform: rafRef.current (0 = null, else a frame id)
  wfPending,        \* waveform: pending animation frames, << id, effect run >>
  wfNextId,         \* waveform: frames requested so far + 1
  wfNextEffect,     \* waveform: effect runs that started a loop so far + 1
  wfCleaned,        \* waveform: effect runs whose cleanup has run (observation only)
  wfLateDraw,       \* waveform: a draw ran after its cleanup (observation only)
  wfScene,          \* waveform: what a draw sees (a bin, the canvas height, the ratio)
  wfBar,            \* waveform: height of the bar last painted, 1/2550 px (Null: none)
  lsToken,          \* api: localStorage holds ekodi_token
  lsRefreshToken,   \* api: localStorage holds ekodi_refresh_token
  lsUser,           \* api: localStorage holds ekodi_user
  lsFrom,           \* api: what stored the tokens that are held (observation only)
  href,             \* api: window.location.href, the page shown
  apiPc,            \* api: where the running call of request waits ("idle": none)
  apiCall,          \* api: which chatAPI function made the last call
  apiLog,           \* api: what the last call fetched and got, in order (observation only)
  apiRes,           \* api: the local variable res of the last call
  apiErr,           \* api: what the last call rejected with (NoErr: nothing)
  apiEvents,        \* api: 'ekodi-server-busy' events the last call dispatched
  apiAlert,         \* api: what the catch of the Chat handler alerted ("none")
  busyVisible,      \* banner: useState visible
  busyCountdown,    \* banner: useState countdown
  timerRef,         \* banner: timerRef.current, the id of a decrement timer (0: null)
  decTimers,        \* banner: ids of the pending timeouts that decrement the countdown
  hideTimers,       \* banner: ids of the pending timeouts that hide the banner
  effectCleanup,    \* banner: the cleanup of the countdown effect: the hide timer it clears (0: it clears timerRef.current)
  busyEvents,       \* banner: number of 'ekodi-server-busy' events dispatched to it
  busyDetail,       \* banner: e.detail.retryAfter of the last of them
  supported,        \* mime: the types MediaRecorder.isTypeSupported reports as supported
  chatMime,         \* mime: the mimeType Chat.jsx gave its last MediaRecorder ("none": none yet)
  demoMime,         \* mime: the mimeType app.js gave its last MediaRecorder ("none": none yet)
  user,             \* auth: useState user of the AuthProvider is not null
  mePc,             \* auth: the authAPI.me() call of the mount effect
  logoutPc,         \* auth: "pending" while logout awaits authAPI.logout(), then how it ended
  meUndidLogin,     \* auth: the end of me() removed a session login stored (observation only)
  rcPc,             \* race: per concurrent call of request, where it waits
  rcToken,          \* race: per call, what stored the access token it sent
  rcRefresh,        \* race: per call, what stored the refresh token it posted ("none": none)
  rcRemoved         \* race: per call, what had stored the session it removed (observation only)

recVars == << recording, recAnalyser, mediaRecorderRef, chunksRef, recAudioCtxRef,
              vadRef, nextSession, phase, stream, recCtx, vadTimer, startTime,
              silentSince >>
playVars == << audioCtxRef, playingMsgId, playAnalyser, nextPlay, audio, playCtx,
               playMsg >>
chatVars == << mounted, now, mic, loading, messages, inflight, hist, recVars, playVars >>
demoRecVars == << dIsRecording, dMediaRecorder, dAudioChunks, dNextSession, dPhase,
                  dStream >>
demoPlayVars == << dIsPlaying, dCurrentAudio, dNextPlay, dAudio >>
demoVars == << dIsLoading, dInflight, dHist, demoRecVars, demoPlayVars >>
textVars == << input, textInflight >>
\* what neither the capture and playback code of Chat.jsx nor the demo client
\* touches
wfVars == << wfMounted, wfOn, wfCleanup, rafRef, wfPending, wfNextId, wfNextEffect,
            wfCleaned, wfLateDraw, wfScene, wfBar >>
storage == << lsToken, lsRefreshToken, lsUser, lsFrom >>
bannerVars == << timerRef, decTimers, hideTimers, effectCleanup >>
apiVars == << storage, href, apiPc, apiCall, apiLog, apiRes, apiErr,
             apiEvents, apiAlert, busyVisible, busyCountdown, bannerVars >>
mimeVars == << supported, chatMime, demoMime >>
\* the state of the concerns below that the older actions never touch
authVars == << user, mePc, logoutPc, meUndidLogin >>
\* the concerns that request and the AuthProvider never touch
raceVars == << rcPc, rcToken, rcRefresh, rcRemoved >>
eventVars == << busyEvents, busyDetail >>
restVars == << mimeVars, raceVars, eventVars >>
moreVars == << authVars, restVars >>
extVars == << textVars, wfVars, apiVars, moreVars >>
vars == << chatVars, demoVars, extVars >>

(* ----------------------- values of the api client ----------------------- *)
\* a JavaScript value that is a number, NaN or undefined
Num(v) == [ kind |-> "number", val |-> v ]
NaN == [ kind |-> "NaN", val |-> 0 ]
Undefined == [ kind |-> "undefined", val |-> 0 ]
\* a || b on such values: 0, NaN and undefined are falsy
OrElse(a, b) == IF a.kind = "number" /\ a.val # 0 THEN a ELSE b

Digits == << "0", "1", "2", "3", "4", "5", "6", "7", "8", "9" >>
IsDigit(c) == \E i \in 1..Len(Digits) : Digits[i] = c
DigitValue(c) == (CHOOSE i \in 1..Len(Digits) : Digits[i] = c) - 1
RECURSIVE SkipWhite(_)
SkipWhite(str) == IF str # <<>> /\ Head(str) = " " THEN SkipWhite(Tail(str)) ELSE str
RECURSIVE ParseDigits(_, _)
ParseDigits(str, acc) ==
  IF str = <<>> \/ ~IsDigit(Head(str)) THEN acc
  ELSE ParseDigits(Tail(str), acc * 10 + DigitValue(Head(str)))
\* parseInt(str, 10) on a string given as its characters: leading white space
\* and a sign are skipped, the digits up to the first other character are
\* read, and without a digit the result is NaN
parseInt(str) ==
  LET s == SkipWhite(str)
      signed == s # <<>> /\ Head(s) \in { "-", "+" }
      body == IF signed THEN Tail(s) ELSE s
  IN  IF body = <<>> \/ ~IsDigit(Head(body)) THEN NaN
      ELSE IF signed /\ Head(s) = "-" THEN Num(0 - ParseDigits(body, 0))
      ELSE Num(ParseDigits(body, 0))

\* a Retry-After header: absent, or present with its characters
NoHeader == [ present |-> FALSE, value |-> <<>> ]
Header(str) == [ present |-> TRUE, value |-> str ]
\* the HTTP-date form of Retry-After
HttpDate ==
  << "W", "e", "d", ",", " ", "2", "1", " ", "O", "c", "t", " ", "2", "0", "2",
     "6", " ", "0", "7", ":", "2", "8", ":", "0", "0", " ", "G", "M", "T" >>
RetryAfterHeaders ==
  { NoHeader, Header(<<>>), Header(<< "0" >>), Header(<< "7" >>),
    Header(<< "3", "0" >>), Header(HttpDate) }
\* res.headers.get('Retry-After') || '10'
RetryAfterText(h) == IF h.present /\ h.value # <<>> THEN h.value ELSE << "1", "0" >>

\* the calls of request that run at the same time: loadConversations and the
\* effect that loads the messages of the active conversation
Calls == { 1, 2 }
\* what the session stored by the refresh of a call is marked with
CallName(c) == IF c = 1 THEN "call1" ELSE "call2"

\* statuses the server answers with, and the detail of the body ("": the body
\* is not JSON or has none)
Statuses == { 200, 401, 500, 503 }
Details == { "", "Model overloaded" }
Responses == [ status : Statuses, detail : Details, retryAfter : RetryAfterHeaders ]
NoRes == [ status |-> 0, detail |-> "", retryAfter |-> NoHeader ]
\* how the POST to /auth/refresh ends: answered ok, answered ok with a body
\* that is not JSON, answered 401 or 503, or rejected by the network
RefreshOutcomes == { "ok", "malformed", "401", "503", "network" }
NoErr == [ message |-> "none", code |-> "none", retryAfter |-> Undefined ]
\* new Error(message)
NewError(message) == [ message |-> message, code |-> "none", retryAfter |-> Undefined ]
\* `Error ${res.status}`
StatusMessage(status) ==
  CASE status = 500 -> "Error 500"
    [] status = 503 -> "Error 503"
    [] status = 401 -> "Error 401"
    [] OTHER -> "Error 200"

(* ------------------------------ helpers -------------------------------- *)
RECURSIVE Sum(_)
Sum(q) == IF q = <<>> THEN 0 ELSE Head(q) + Sum(Tail(q))
\* the sizes of a sequence of chunks
Sizes(chunks) == [i \in 1..Len(chunks) |-> chunks[i][2]]
\* history of a delivered chunk (their number), and of the blob built when the
\* session ends: intact when it holds as many chunks as the session
\* delivered and all of them are its own
HistDelivered(h, s, chunk) == [h EXCEPT ![s].delivered = @ + 1]
HistBlob(h, s, blob) ==
  [h EXCEPT ![s] = [@ EXCEPT !.blobIntact =
                               IF /\ Len(blob) = h[s].delivered
                                  /\ \A i \in 1..Len(blob) : blob[i][1] = s
                                 THEN "yes" ELSE "no",
                             !.delivered = 0]]

\* (variant: the level at the threshold counts as silence)
IsSilent_Inclusive(snap) == Sum(snap) <= VAD_SILENCE_THRESHOLD * Len(snap)

\* avgLevel < VAD_SILENCE_THRESHOLD, avgLevel = sum / dataArray.length
IsSilent(snap) == Sum(snap) < VAD_SILENCE_THRESHOLD * Len(snap)

\* (variant: a blob of exactly the threshold size is sent)
BlobAccepted_Inclusive(size) == size >= MIN_BLOB_SIZE

\* blob.size > 5000
BlobAccepted(size) == size > MIN_BLOB_SIZE

Alive(t) == t \in { "active", "due" }

\* a silent run that began before VAD_MIN_SPEECH_TIME had elapsed
Early == Null - 1

\* the signal is below the silence threshold: its mean bin level is
BelowThreshold(snap) == Sum(snap) < VAD_SILENCE_THRESHOLD * Len(snap)

\* the poll sequence "silence for the first 400 ms, speech at three polls,
\* then silence for 1900 ms", polls every 100 ms: the polls at 100..400 ms
\* read silence, those at 500..700 ms speech, those at 800..2700 ms silence;
\* at 2600 ms the last silence has lasted 1800 ms
PatternSilent(elapsed) == elapsed <= 400 \/ elapsed >= 800
PatternFull == 800 + VAD_SILENCE_DURATION
PatternEnd == PatternFull + VAD_CHECK_INTERVAL

NoHist == [ vadStops |-> 0, stopCalls |-> 0, run |-> Null, sustained |-> FALSE,
            heardSilence |-> FALSE,
            firedEarly |-> FALSE, pat |-> "match", pollsAfterStop |-> 0,
            manual |-> FALSE, stoppedDue |-> FALSE, blobSize |-> Null,
            uploads |-> 0, cause |-> "none", alert |-> "none",
            delivered |-> 0, blobIntact |-> "none" ]

\* names of the errors getUserMedia rejects with: access denied, no device
RejectNames == { "NotAllowedError", "NotFoundError" }

\* the catch block of toggleRecording: what it alerts for an error
ChatAlert(name) == "Microphone access denied"

\* the catch block of startRec: the key of the toast it shows for an error
DemoToast(name) == IF name = "NotAllowedError" THEN "mic_denied" ELSE "mic_not_supported"

\* history of a failed start: the error and what was reported for it
HistFailed(h, s, name, message) ==
  [h EXCEPT ![s] = [@ EXCEPT !.cause = name, !.alert = message]]

\* the ids of the optimistic placeholder messages of sendMessage and sendVoice
Placeholders == { "temp-user", "temp-voice" }
NoPlaceholders == [ id \in Placeholders |-> 0 ]
\* setMessages((prev) => [...prev, msg]) for a placeholder msg
AddMessage(msgs, id) == [ msgs EXCEPT ![id] = @ + 1 ]
\* prev.filter((m) => m.id !== id)
FilterOut(msgs, id) == [ msgs EXCEPT ![id] = 0 ]

InitOf(scene, mimes) ==
  /\ mounted = TRUE
  /\ now = 0
  /\ mic = <<0, 0>>
  /\ recording = FALSE
  /\ loading = FALSE
  /\ messages = NoPlaceholders
  /\ recAnalyser = 0
  /\ mediaRecorderRef = 0
  /\ chunksRef = <<>>
  /\ recAudioCtxRef = 0
  /\ vadRef = 0
  /\ nextSession = 1
  /\ phase = [s \in Sessions |-> "unused"]
  /\ stream = [s \in Sessions |-> "none"]
  /\ recCtx = [s \in Sessions |-> "none"]
  /\ vadTimer = [s \in Sessions |-> "none"]
  /\ startTime = [s \in Sessions |-> Null]
  /\ silentSince = [s \in Sessions |-> Null]
  /\ inflight = 0
  /\ hist = [s \in Sessions |-> NoHist]
  /\ audioCtxRef = 0
  /\ playingMsgId = 0
  /\ playAnalyser = 0
  /\ nextPlay = 1
  /\ audio = [p \in Plays |-> "none"]
  /\ playCtx = [p \in Plays |-> "none"]
  /\ playMsg = [p \in Plays |-> 0]
  /\ dIsRecording = FALSE
  /\ dIsLoading = FALSE
  /\ dIsPlaying = FALSE
  /\ dCurrentAudio = 0
  /\ dMediaRecorder = 0
  /\ dAudioChunks = <<>>
  /\ dNextSession = 1
  /\ dPhase = [s \in Sessions |-> "unused"]
  /\ dStream = [s \in Sessions |-> "none"]
  /\ dNextPlay = 1
  /\ dAudio = [p \in Plays |-> "none"]
  /\ dInflight = 0
  /\ dHist = [s \in Sessions |-> [ blobSize |-> Null, chunks |-> 0, uploads |-> 0,
                                   cause |-> "none", alert |-> "none",
                                   delivered |-> 0, blobIntact |-> "none" ]]
  /\ input = FALSE
  /\ textInflight = 0
  /\ wfMounted = TRUE
  /\ wfOn = FALSE
  /\ wfCleanup = 0
  /\ rafRef = 0
  /\ wfPending = {}
  /\ wfNextId = 1
  /\ wfNextEffect = 1
  /\ wfCleaned = {}
  /\ wfLateDraw = FALSE
  /\ wfScene = scene
  /\ wfBar = Null
  /\ lsToken = TRUE
  /\ lsRefreshToken = TRUE
  /\ lsUser = TRUE
  /\ lsFrom = "earlier"
  /\ href = "/chat"
  /\ apiPc = "idle"
  /\ apiCall = "none"
  /\ apiLog = <<>>
  /\ apiRes = NoRes
  /\ apiErr = NoErr
  /\ apiEvents = <<>>
  /\ apiAlert = "none"
  /\ busyVisible = FALSE
  /\ busyCountdown = Num(0)
  /\ timerRef = 0
  /\ decTimers = {}
  /\ hideTimers = {}
  /\ effectCleanup = 0
  /\ busyEvents = 0
  /\ busyDetail = Undefined
  /\ supported = mimes
  /\ chatMime = "none"
  /\ demoMime = "none"
  /\ user = TRUE
  /\ mePc = "pending"
  /\ logoutPc = "idle"
  /\ meUndidLogin = FALSE
  /\ rcPc = [c \in Calls |-> "idle"]
  /\ rcToken = [c \in Calls |-> "none"]
  /\ rcRefresh = [c \in Calls |-> "none"]
  /\ rcRemoved = [c \in Calls |-> "none"]

\* the state after construction, the canvas not laid out yet
InitWith(scene) == InitOf(scene, { "audio/webm;codecs=opus", "audio/webm" })

Init == InitWith(<< 0, 0, 1 >>)

\* the same, whatever the draws of the waveform will see
InitWave == \E scene \in Scenes : InitWith(scene)

(* ------------------------------ playAudio ------------------------------ *)
\* (variant: the previous context is not closed)
ClosePrevPlayback_Skip(ctxs) == ctxs

\* if (audioCtxRef.current) audioCtxRef.current.close()
ClosePrevPlayback(ctxs) ==
  IF audioCtxRef # 0 THEN [ctxs EXCEPT ![audioCtxRef] = "closed"] ELSE ctxs

\* playAudio(b64, msgId): a new Audio element on a new AudioContext; play()
\* is called and its promise is pending
playAudio(msgId) ==
  /\ nextPlay <= MaxPlays
  /\ playCtx' = [ClosePrevPlayback(playCtx) EXCEPT ![nextPlay] = "running"]
  /\ audioCtxRef' = nextPlay
  /\ playAnalyser' = nextPlay
  /\ playingMsgId' = IF msgId # 0 THEN msgId ELSE playingMsgId
  /\ audio' = [audio EXCEPT ![nextPlay] = "starting"]
  /\ playMsg' = [playMsg EXCEPT ![nextPlay] = msgId]
  /\ nextPlay' = nextPlay + 1

\* (variant: starting a playback ends the recording state)
PlayClick_StopsRecording(msgId) ==
  /\ mounted
  /\ playAudio(msgId)
  /\ recording' = FALSE
  /\ UNCHANGED << extVars, demoVars, mounted, now, mic, loading, messages, inflight, hist,
                  recAnalyser, mediaRecorderRef, chunksRef, recAudioCtxRef, vadRef,
                  nextSession, phase, stream, recCtx, vadTimer, startTime, silentSince >>

\* click on the play button of a message bubble
PlayClick(msgId) ==
  /\ mounted
  /\ playAudio(msgId)
  /\ UNCHANGED << extVars, demoVars, mounted, now, mic, loading, messages, inflight, hist, recVars >>

\* the promise of audio.play() resolves: the element plays
AudioPlayStarted(p) ==
  /\ audio[p] = "starting"
  /\ audio' = [audio EXCEPT ![p] = "playing"]
  /\ UNCHANGED << extVars, demoVars, mounted, now, mic, loading, messages, inflight, hist, recVars, audioCtxRef,
                  playingMsgId, playAnalyser, nextPlay, playCtx, playMsg >>

\* the promise of audio.play() rejects (autoplay blocked): the catch handler
AudioPlayRejected(p) ==
  /\ audio[p] = "starting"
  /\ audio' = [audio EXCEPT ![p] = "blocked"]
  /\ playingMsgId' = 0
  /\ playAnalyser' = 0
  /\ UNCHANGED << extVars, demoVars, mounted, now, mic, loading, messages, inflight, hist, recVars, audioCtxRef,
                  nextPlay, playCtx, playMsg >>

\* (variant: the 'ended' listener leaves the context open)
CloseEndedCtx_Skip(ctxs, p) == ctxs

\* the 'ended' listener: ctx.close() on the context of its own playback
CloseEndedCtx(ctxs, p) == [ctxs EXCEPT ![p] = "closed"]

\* the 'ended' listener of the element of playback p
AudioEnded(p) ==
  /\ audio[p] = "playing"
  /\ audio' = [audio EXCEPT ![p] = "ended"]
  /\ playingMsgId' = 0
  /\ playAnalyser' = 0
  /\ playCtx' = CloseEndedCtx(playCtx, p)
  /\ UNCHANGED << extVars, demoVars, mounted, now, mic, loading, messages, inflight, hist, recVars, audioCtxRef,
                  nextPlay, playMsg >>

(* --------------------------- stopRecording ----------------------------- *)
\* (variant: the interval is not cleared)
ClearVad_Skip(timers) == timers

\* clearInterval(vadRef.current)
ClearVad(timers) ==
  IF vadRef # 0 THEN [timers EXCEPT ![vadRef] = "cleared"] ELSE timers

\* the callback of a cleared interval is dropped, and with it the closure
\* variable f (startTime, silentSince) that only the callback reads
DropClosure(f) ==
  IF vadRef # 0 THEN [f EXCEPT ![vadRef] = Null] ELSE f

\* recAudioCtxRef.current.close()
CloseRecCtx(ctxs) ==
  IF recAudioCtxRef # 0 THEN [ctxs EXCEPT ![recAudioCtxRef] = "closed"] ELSE ctxs

\* mediaRecorderRef.current?.stop(): an active recorder becomes inactive and
\* its stop event is queued; on an inactive recorder the call changes nothing
StopRecorder(phases) ==
  IF mediaRecorderRef # 0 /\ phases[mediaRecorderRef] = "recording"
    THEN [phases EXCEPT ![mediaRecorderRef] = "stopping"]
    ELSE phases

\* history: the monitor whose interval is cleared has no current run any more
HistClear(h) ==
  IF vadRef # 0 THEN [h EXCEPT ![vadRef].run = Null] ELSE h

\* history of a call of stopRecording: h is hist as the caller left it
HistStop(h, byUser) ==
  IF mediaRecorderRef = 0 THEN HistClear(h)
  ELSE [HistClear(h) EXCEPT ![mediaRecorderRef] =
         [@ EXCEPT !.stopCalls = @ + 1,
                   !.stoppedDue = IF phase[mediaRecorderRef] = "recording"
                                    THEN vadTimer[mediaRecorderRef] = "due" /\ byUser
                                    ELSE @,
                   !.manual = IF phase[mediaRecorderRef] = "recording" THEN byUser ELSE @]]

\* stopRecording(), called with the timers, silentSince and the history as the
\* caller left them
stopRecording(timers, since, h, byUser) ==
  /\ vadTimer' = ClearVad(timers)
  /\ vadRef' = 0
  /\ startTime' = DropClosure(startTime)
  /\ silentSince' = DropClosure(since)
  /\ phase' = StopRecorder(phase)
  /\ recording' = FALSE
  /\ recAnalyser' = 0
  /\ recCtx' = CloseRecCtx(recCtx)
  /\ recAudioCtxRef' = 0
  /\ hist' = HistStop(h, byUser)

(* -------------------------- toggleRecording ---------------------------- *)
\* click on the mic button (disabled while loading)
MicClick ==
  /\ mounted
  /\ ~loading
  /\ IF recording
       THEN /\ stopRecording(vadTimer, silentSince, hist, TRUE)
            /\ UNCHANGED << nextSession, stream, chunksRef, mediaRecorderRef >>
       ELSE /\ nextSession <= MaxSessions
            /\ phase' = [phase EXCEPT ![nextSession] = "prompt"]
            /\ nextSession' = nextSession + 1
            /\ UNCHANGED << recording, recAnalyser, mediaRecorderRef, chunksRef,
                            recAudioCtxRef, vadRef, stream, recCtx, vadTimer,
                            startTime, silentSince, hist >>
  /\ UNCHANGED << extVars, demoVars, playVars, mounted, now, mic, loading, messages, inflight >>

\* getUserMedia rejects: the catch block alerts
GumReject(s) ==
  /\ phase[s] = "prompt"
  /\ phase' = [phase EXCEPT ![s] = "denied"]
  /\ \E name \in RejectNames : hist' = HistFailed(hist, s, name, ChatAlert(name))
  /\ UNCHANGED << extVars, demoVars, playVars, mounted, now, mic, loading, messages, inflight, recording, recAnalyser,
                  mediaRecorderRef, chunksRef, recAudioCtxRef, vadRef, nextSession,
                  stream, recCtx, vadTimer, startTime, silentSince >>

\* getUserMedia resolves: the rest of toggleRecording runs; fail names the
\* statement that throws, if any (the catch block alerts and nothing else)
GumResolve(s, fail) ==
  /\ phase[s] = "prompt"
  /\ stream' = [stream EXCEPT ![s] = "live"]
  /\ phase' = [phase EXCEPT ![s] = IF fail = "none" THEN "recording" ELSE "failed"]
  /\ chunksRef' = IF fail = "recorder" THEN chunksRef ELSE <<>>
  /\ recCtx' = IF fail \in { "recorder", "context" } THEN recCtx
               ELSE [recCtx EXCEPT ![s] = "running"]
  /\ recAudioCtxRef' = IF fail \in { "recorder", "context" } THEN recAudioCtxRef ELSE s
  /\ recAnalyser' = IF fail \in { "recorder", "context" } THEN recAnalyser ELSE s
  /\ mediaRecorderRef' = IF fail = "none" THEN s ELSE mediaRecorderRef
  /\ recording' = IF fail = "none" THEN TRUE ELSE recording
  /\ startTime' = IF fail = "none" THEN [startTime EXCEPT ![s] = now] ELSE startTime
  /\ vadTimer' = IF fail = "none" THEN [vadTimer EXCEPT ![s] = "active"] ELSE vadTimer
  /\ vadRef' = IF fail = "none" THEN s ELSE vadRef
  /\ hist' = IF fail = "none" THEN hist ELSE HistFailed(hist, s, fail, ChatAlert(fail))
  /\ UNCHANGED << extVars, demoVars, playVars, mounted, now, mic, loading, messages, inflight, nextSession, silentSince >>

\* recorder.ondataavailable: a chunk of the given size arrives
DataAvailable(s, size) ==
  /\ phase[s] \in { "recording", "stopping" }
  /\ Len(chunksRef) < MaxChunks
  /\ chunksRef' = IF size > 0 THEN Append(chunksRef, << s, size >>) ELSE chunksRef
  /\ hist' = IF size > 0 THEN HistDelivered(hist, s, << s, size >>) ELSE hist
  /\ UNCHANGED << extVars, demoVars, playVars, mounted, now, mic, loading, messages, inflight, recording, recAnalyser,
                  mediaRecorderRef, recAudioCtxRef, vadRef, nextSession, phase,
                  stream, recCtx, vadTimer, startTime, silentSince >>

\* recorder.onstop, sendVoice up to its first await included
RecorderOnStop(s) ==
  /\ phase[s] = "stopping"
  /\ phase' = [phase EXCEPT ![s] = "finalized"]
  /\ stream' = [stream EXCEPT ![s] = "ended"]
  /\ recAnalyser' = 0
  /\ vadTimer' = ClearVad(vadTimer)
  /\ vadRef' = 0
  /\ startTime' = DropClosure(startTime)
  /\ silentSince' = DropClosure(silentSince)
  /\ recCtx' = CloseRecCtx(recCtx)
  /\ recAudioCtxRef' = 0
  /\ LET size == Sum(Sizes(chunksRef)) IN
       /\ loading' = IF BlobAccepted(size) THEN TRUE ELSE loading
       /\ messages' = IF BlobAccepted(size) THEN AddMessage(messages, "temp-voice")
                                             ELSE messages
       /\ inflight' = IF BlobAccepted(size) THEN inflight + 1 ELSE inflight
       /\ hist' = [HistBlob(HistClear(hist), s, chunksRef) EXCEPT ![s] =
                     [@ EXCEPT !.blobSize = size,
                               !.uploads = IF BlobAccepted(size) THEN @ + 1 ELSE @]]
  /\ UNCHANGED << extVars, demoVars, playVars, mounted, now, mic, recording, mediaRecorderRef, chunksRef, nextSession >>

\* the response of a voice-chat request arrives: with audio for message
\* msgId, which is played, or (msgId = 0) without audio or as a failure; then
\* the finally block of sendVoice
VoiceDone(msgId) ==
  /\ inflight > 0
  /\ inflight' = inflight - 1
  /\ messages' = FilterOut(messages, "temp-voice")
  /\ loading' = FALSE
  /\ IF msgId # 0 THEN playAudio(msgId) ELSE UNCHANGED playVars
  /\ UNCHANGED << extVars, demoVars, mounted, now, mic, hist, recVars >>

(* ----------------------------- sendMessage ----------------------------- *)
\* the user types into the text input: it is disabled while loading and not
\* rendered while the recording waveform is shown
TypeText ==
  /\ mounted
  /\ ~loading
  /\ ~(recording /\ recAnalyser # 0)
  /\ ~input
  /\ input' = TRUE
  /\ UNCHANGED << apiVars, textInflight, wfVars, chatVars, demoVars, moreVars >>

\* click on the send button (or Enter): sendMessage up to its await
SendClick ==
  /\ mounted
  /\ input /\ ~loading
  /\ input' = FALSE
  /\ loading' = TRUE
  /\ messages' = AddMessage(messages, "temp-user")
  /\ textInflight' = textInflight + 1
  /\ UNCHANGED << apiVars, wfVars, demoVars, moreVars, playVars, mounted, now, mic, inflight, hist, recVars >>

\* the response of a chat request arrives: with audio, which is played for
\* message msgId, or (msgId = 0) without audio or as a failure; then the
\* finally block of sendMessage
TextDone(msgId) ==
  /\ textInflight > 0
  /\ textInflight' = textInflight - 1
  /\ messages' = FilterOut(messages, "temp-user")
  /\ loading' = FALSE
  /\ IF msgId # 0 THEN playAudio(msgId) ELSE UNCHANGED playVars
  /\ UNCHANGED << apiVars, input, wfVars, demoVars, moreVars, mounted, now, mic, inflight, hist, recVars >>

\* the list is replaced: newChat, deleteConvo of the active conversation, or
\* the answer to getConversation in the effect on activeConvo; what the
\* server returns holds no placeholder
ReplaceMessages ==
  /\ mounted
  /\ messages' = NoPlaceholders
  /\ UNCHANGED << extVars, demoVars, playVars, mounted, now, mic, loading, inflight, hist, recVars >>

\* the Chat component unmounts (navigation, logout); it has no effect cleanup
Unmount ==
  /\ mounted
  /\ mounted' = FALSE
  /\ UNCHANGED << extVars, demoVars, playVars, now, mic, loading, messages, inflight, hist, recVars >>

(* --------------------------- the VAD monitor --------------------------- *)
\* VAD_CHECK_INTERVAL ms pass while an interval timer runs: every running
\* timer becomes due, and the microphone signal is now snap
Tick(snap) ==
  /\ \E s \in Sessions : Alive(vadTimer[s])
  /\ \A s \in Sessions : vadTimer[s] # "due"
  /\ now < MaxPolls * VAD_CHECK_INTERVAL
  /\ now' = now + VAD_CHECK_INTERVAL
  /\ mic' = snap
  /\ vadTimer' = [s \in Sessions |->
                    IF vadTimer[s] = "active" THEN "due" ELSE vadTimer[s]]
  /\ UNCHANGED << extVars, demoVars, playVars, mounted, loading, messages, inflight, hist, recording, recAnalyser,
                  mediaRecorderRef, chunksRef, recAudioCtxRef, vadRef, nextSession,
                  phase, stream, recCtx, startTime, silentSince >>

\* (variant: speech does not reset the marker)
NextSilentSince_NoReset(s) ==
  IF now - startTime[s] < VAD_MIN_SPEECH_TIME THEN silentSince[s]
  ELSE IF IsSilent(mic) /\ silentSince[s] = Null THEN now
  ELSE silentSince[s]

\* what one poll does to silentSince: the new value
NextSilentSince(s) ==
  IF now - startTime[s] < VAD_MIN_SPEECH_TIME THEN silentSince[s]
  ELSE IF IsSilent(mic)
         THEN (IF silentSince[s] = Null THEN now ELSE silentSince[s])
         ELSE Null

\* whether the poll calls stopRecording
PollFires(s) ==
  /\ now - startTime[s] >= VAD_MIN_SPEECH_TIME
  /\ IsSilent(mic)
  /\ now - NextSilentSince(s) >= VAD_SILENCE_DURATION

\* history of one poll of monitor s; fires: the poll calls stopRecording
HistPoll(s, fires) ==
  LET elapsed == now - startTime[s]
      run == IF ~BelowThreshold(mic) THEN Null
             ELSE IF hist[s].run # Null THEN hist[s].run
             ELSE IF elapsed < VAD_MIN_SPEECH_TIME THEN Early ELSE now
  IN [hist EXCEPT ![s] =
       [@ EXCEPT !.run = run,
                 !.sustained = @ \/ (run >= 0 /\ now - run >= VAD_SILENCE_DURATION),
                 !.vadStops = IF fires THEN @ + 1 ELSE @,
                 !.firedEarly = @ \/ (fires /\ elapsed <
                                        VAD_MIN_SPEECH_TIME + VAD_SILENCE_DURATION),
                 !.heardSilence = @ \/ (elapsed >= VAD_MIN_SPEECH_TIME
                                         /\ BelowThreshold(mic)),
                 !.pat = IF @ # "off" /\ elapsed <= PatternEnd
                           THEN (IF BelowThreshold(mic) # PatternSilent(elapsed)
                                   THEN "off"
                                 ELSE IF elapsed >= PatternFull THEN "done" ELSE "match")
                           ELSE @,
                 !.pollsAfterStop = IF phase[s] \in { "stopping", "finalized" }
                                      THEN @ + 1 ELSE @]]

\* the setInterval callback of session s runs
VadPoll(s) ==
  /\ vadTimer[s] = "due"
  /\ IF PollFires(s)
       THEN stopRecording([vadTimer EXCEPT ![s] = "active"],
                          [silentSince EXCEPT ![s] = NextSilentSince(s)],
                          HistPoll(s, TRUE), FALSE)
       ELSE /\ vadTimer' = [vadTimer EXCEPT ![s] = "active"]
            /\ silentSince' = [silentSince EXCEPT ![s] = NextSilentSince(s)]
            /\ hist' = HistPoll(s, FALSE)
            /\ UNCHANGED << vadRef, phase, recording, recAnalyser, recCtx,
                            recAudioCtxRef, startTime >>
  /\ UNCHANGED << extVars, demoVars, playVars, mounted, now, mic, loading, messages, inflight, mediaRecorderRef, chunksRef,
                  nextSession, stream >>

(* ------------------------ the static demo client ---------------------- *)
\* playB64(b64): the current element is paused, a new one is played
playB64 ==
  /\ dNextPlay <= MaxPlays
  /\ dAudio' = [p \in Plays |->
                  IF p = dNextPlay THEN "starting"
                  ELSE IF p = dCurrentAudio /\ dAudio[p] \in { "starting", "playing" }
                    THEN "paused"
                  ELSE dAudio[p]]
  /\ dCurrentAudio' = dNextPlay
  /\ dIsPlaying' = TRUE
  /\ dNextPlay' = dNextPlay + 1

\* stopRec(): what it does to the recorders
DemoStopRecorder(phases) ==
  IF dMediaRecorder # 0 /\ dIsRecording /\ phases[dMediaRecorder] = "recording"
    THEN [phases EXCEPT ![dMediaRecorder] = "stopping"]
    ELSE phases

\* stopPlayback()
stopPlayback ==
  /\ dAudio' = IF dCurrentAudio # 0 /\ dAudio[dCurrentAudio] \in { "starting", "playing" }
                 THEN [dAudio EXCEPT ![dCurrentAudio] = "paused"] ELSE dAudio
  /\ dIsPlaying' = FALSE
  /\ UNCHANGED << dCurrentAudio, dNextPlay >>

\* click on the mic button: toggleRec(), startRec() up to getUserMedia
DemoToggleRec ==
  /\ IF dIsRecording
       THEN /\ dPhase' = DemoStopRecorder(dPhase)
            /\ dIsRecording' = FALSE
            /\ UNCHANGED dNextSession
       ELSE /\ ~dIsLoading
            /\ dNextSession <= MaxSessions
            /\ dPhase' = [dPhase EXCEPT ![dNextSession] = "prompt"]
            /\ dNextSession' = dNextSession + 1
            /\ UNCHANGED dIsRecording
  /\ UNCHANGED << extVars, chatVars, dIsLoading, dInflight, dHist, dMediaRecorder, dAudioChunks,
                  dStream, demoPlayVars >>

\* the Escape key: onKey
DemoEscape ==
  /\ dIsRecording \/ dIsPlaying
  /\ IF dIsRecording
       THEN /\ dPhase' = DemoStopRecorder(dPhase)
            /\ dIsRecording' = FALSE
            /\ UNCHANGED demoPlayVars
       ELSE /\ stopPlayback
            /\ UNCHANGED << dPhase, dIsRecording >>
  /\ UNCHANGED << extVars, chatVars, dIsLoading, dInflight, dHist, dMediaRecorder, dAudioChunks,
                  dNextSession, dStream >>

\* getUserMedia rejects: the catch block of startRec shows a toast
DemoGumReject(s) ==
  /\ dPhase[s] = "prompt"
  /\ dPhase' = [dPhase EXCEPT ![s] = "denied"]
  /\ \E name \in RejectNames : dHist' = HistFailed(dHist, s, name, DemoToast(name))
  /\ UNCHANGED << extVars, chatVars, dIsLoading, dInflight, dIsRecording, dMediaRecorder,
                  dAudioChunks, dNextSession, dStream, demoPlayVars >>

\* getUserMedia resolves: the rest of startRec runs; fail names the statement
\* that throws, if any
DemoGumResolve(s, fail) ==
  /\ dPhase[s] = "prompt"
  /\ dStream' = [dStream EXCEPT ![s] = "live"]
  /\ dPhase' = [dPhase EXCEPT ![s] = IF fail = "none" THEN "recording" ELSE "failed"]
  /\ dMediaRecorder' = IF fail = "recorder" THEN dMediaRecorder ELSE s
  /\ dAudioChunks' = IF fail = "recorder" THEN dAudioChunks ELSE <<>>
  /\ dIsRecording' = IF fail = "none" THEN TRUE ELSE dIsRecording
  /\ dHist' = IF fail = "none" THEN dHist ELSE HistFailed(dHist, s, fail, DemoToast(fail))
  /\ UNCHANGED << extVars, chatVars, dIsLoading, dInflight, dNextSession, demoPlayVars >>

\* whether mediaRecorder.onstop sends the capture: audioChunks.length
DemoSubmits(chunks) == Len(chunks) > 0

\* the recorder of session s, stopped, delivers its data (one chunk of the
\* given size: start() was called without a time slice) and its stop event:
\* ondataavailable, then onstop with sendVoice up to its first await
DemoOnStop(s, size) ==
  /\ dPhase[s] = "stopping"
  /\ dPhase' = [dPhase EXCEPT ![s] = "finalized"]
  /\ dStream' = [dStream EXCEPT ![s] = "ended"]
  /\ LET chunks == IF size > 0 THEN Append(dAudioChunks, << s, size >>)
                   ELSE dAudioChunks
         delivered == IF size > 0 THEN HistDelivered(dHist, s, << s, size >>) ELSE dHist
     IN
       /\ dAudioChunks' = chunks
       /\ dIsLoading' = IF DemoSubmits(chunks) THEN TRUE ELSE dIsLoading
       /\ dInflight' = IF DemoSubmits(chunks) THEN dInflight + 1 ELSE dInflight
       /\ dHist' = [HistBlob(delivered, s, chunks) EXCEPT ![s] =
                      [@ EXCEPT !.blobSize = Sum(Sizes(chunks)), !.chunks = Len(chunks),
                                !.uploads = IF DemoSubmits(chunks) THEN @ + 1 ELSE @]]
  /\ UNCHANGED << extVars, chatVars, dIsRecording, dMediaRecorder, dNextSession, demoPlayVars >>

\* a text message is sent: sendText up to its fetch
DemoSendText ==
  /\ ~dIsLoading
  /\ dIsLoading' = TRUE
  /\ dInflight' = dInflight + 1
  /\ UNCHANGED << extVars, chatVars, dHist, demoRecVars, demoPlayVars >>

\* the response of a /voice-chat or /chat request arrives, with audio, which
\* is played, or without audio or as a failure; then the finally block of
\* sendVoice or sendText
DemoResponse(withAudio) ==
  /\ dInflight > 0
  /\ dInflight' = dInflight - 1
  /\ dIsLoading' = FALSE
  /\ IF withAudio THEN playB64 ELSE UNCHANGED demoPlayVars
  /\ UNCHANGED << extVars, chatVars, dHist, demoRecVars >>

\* click on the replay button of a bubble: there is one once a response
\* carried audio
DemoReplay ==
  /\ dNextPlay > 1
  /\ playB64
  /\ UNCHANGED << extVars, chatVars, dIsLoading, dInflight, dHist, demoRecVars >>

\* the promise of play() settles: the element plays, or stays paused
DemoPlaySettled(p, ok) ==
  /\ dAudio[p] = "starting"
  /\ dAudio' = [dAudio EXCEPT ![p] = IF ok THEN "playing" ELSE "blocked"]
  /\ UNCHANGED << extVars, chatVars, dIsLoading, dInflight, dHist, demoRecVars, dIsPlaying,
                  dCurrentAudio, dNextPlay >>

\* currentAudio.onended of the element of playback p
DemoAudioEnded(p) ==
  /\ dAudio[p] = "playing"
  /\ dAudio' = [dAudio EXCEPT ![p] = "ended"]
  /\ dIsPlaying' = FALSE
  /\ UNCHANGED << extVars, chatVars, dIsLoading, dInflight, dHist, demoRecVars, dCurrentAudio,
                  dNextPlay >>

(* ---------------------------- AudioWaveform ---------------------------- *)
\* (variant: the cleanup cancels nothing)
CancelFrame_Skip(pending) == pending

\* cancelAnimationFrame(rafRef.current)
CancelFrame(pending) == { f \in pending : f[1] # rafRef }

\* const dpr = window.devicePixelRatio || 1
Dpr(raw) == IF raw = 0 THEN 1 ELSE raw

\* (variant: no minimum height)
barH_NoFloor(value, height, dpr) == value * height * 9

\* barH = Math.max(2 * dpr, percent * canvas.height * 0.9), percent = value / 255,
\* in units of 1/2550 px
barH(value, height, dpr) ==
  IF 2 * dpr * 2550 >= value * height * 9 THEN 2 * dpr * 2550 ELSE value * height * 9

\* one bar of a draw: canvas.height is rect.height * dpr
PaintedBar == barH(wfScene[1], wfScene[2] * Dpr(wfScene[3]), Dpr(wfScene[3]))

\* the cleanup of the effect, if one is registered: what it leaves pending
AfterCleanup ==
  IF wfCleanup # 0 /\ rafRef # 0 THEN CancelFrame(wfPending) ELSE wfPending

\* the previous cleanup, then the effect with the props on: it returns early
\* unless the analyser is there and active, else calls draw() once, which
\* requests the next frame before it paints
RunEffect(on) ==
  /\ wfCleaned' = IF wfCleanup # 0 THEN wfCleaned \cup { wfCleanup } ELSE wfCleaned
  /\ IF on
       THEN /\ wfPending' = AfterCleanup \cup { << wfNextId, wfNextEffect >> }
            /\ rafRef' = wfNextId
            /\ wfNextId' = wfNextId + 1
            /\ wfCleanup' = wfNextEffect
            /\ wfNextEffect' = wfNextEffect + 1
            /\ wfBar' = PaintedBar
       ELSE /\ wfPending' = AfterCleanup
            /\ wfCleanup' = 0
            /\ UNCHANGED << rafRef, wfNextId, wfNextEffect, wfBar >>

\* a render with changed dependencies (analyserNode, active, color, barWidth,
\* barGap): on is the new value of analyserNode && active
WfPropsChange(on) ==
  /\ wfMounted
  /\ wfNextId <= MaxFrames /\ wfNextEffect <= MaxEffects
  /\ wfOn' = on
  /\ RunEffect(on)
  /\ UNCHANGED << wfMounted, wfLateDraw, wfScene, textVars, apiVars, chatVars, demoVars, moreVars >>

\* the browser runs a pending animation frame: draw
WfFrame(f) ==
  /\ f \in wfPending
  /\ wfNextId <= MaxFrames
  /\ wfPending' = (wfPending \ { f }) \cup { << wfNextId, f[2] >> }
  /\ rafRef' = wfNextId
  /\ wfNextId' = wfNextId + 1
  /\ wfLateDraw' = (wfLateDraw \/ f[2] \in wfCleaned)
  /\ wfBar' = PaintedBar
  /\ UNCHANGED << wfMounted, wfOn, wfCleanup, wfNextEffect, wfCleaned, wfScene, textVars, apiVars,
                  chatVars, demoVars, moreVars >>

\* the instance unmounts: the registered cleanup runs
WfUnmount ==
  /\ wfMounted
  /\ wfMounted' = FALSE
  /\ wfPending' = AfterCleanup
  /\ wfCleaned' = IF wfCleanup # 0 THEN wfCleaned \cup { wfCleanup } ELSE wfCleaned
  /\ wfCleanup' = 0
  /\ UNCHANGED << wfOn, rafRef, wfNextId, wfNextEffect, wfLateDraw, wfScene, wfBar,
                  textVars, apiVars, chatVars,
                  demoVars, moreVars >>

(* ------------------------------ api client ----------------------------- *)
\* localStorage.setItem of ekodi_token, ekodi_refresh_token and ekodi_user
StoreSession(from) ==
  /\ lsToken' = TRUE
  /\ lsRefreshToken' = TRUE
  /\ lsUser' = TRUE
  /\ lsFrom' = from
\* localStorage.removeItem of the three
RemoveSession ==
  /\ lsToken' = FALSE
  /\ lsRefreshToken' = FALSE
  /\ lsUser' = FALSE
  /\ lsFrom' = "none"
\* window.location.href = '/login' loads the page anew: the AuthProvider
\* starts from the storage, which holds no session, and what the old page
\* awaited is gone
LoadLoginPage ==
  /\ href' = "/login"
  /\ user' = FALSE
  /\ mePc' = "none"
  /\ logoutPc' = "idle"
  /\ UNCHANGED meUndidLogin

\* entries of the log of a call
Fetched(path) == [ op |-> "fetch", path |-> path, status |-> 0 ]
Answered(path, status) == [ op |-> "response", path |-> path, status |-> status ]
Rejected(path) == [ op |-> "rejected", path |-> path, status |-> 0 ]
\* the path chatAPI.sendText and chatAPI.sendVoice request
PathOf(call) == IF call = "sendText" THEN "/chat" ELSE "/voice-chat"

\* setTimeout returns an id no pending timeout has; the ids of decrement
\* timeouts and of hide timeouts are told apart by their kind, timerRef only
\* ever holding one of the former and effectCleanup one of the latter
FreshTimer(used) ==
  CHOOSE i \in 1..(Cardinality(used) + 1) :
    i \notin used /\ \A j \in 1..(i - 1) : j \in used

\* the countdown effect of the banner after a render with visible = vis and
\* countdown = cnt, dec and hide being the timers pending then: nothing when
\* neither changed, else the cleanup of the last run and a new run
CountdownEffect(vis, cnt, dec, hide) ==
  IF vis = busyVisible /\ cnt = busyCountdown
    THEN /\ decTimers' = dec
         /\ hideTimers' = hide
         /\ UNCHANGED << timerRef, effectCleanup >>
    ELSE LET dec0 == IF effectCleanup = 0 THEN dec \ { timerRef } ELSE dec
             hide0 == IF effectCleanup = 0 THEN hide ELSE hide \ { effectCleanup }
             t == FreshTimer(IF vis /\ cnt.kind = "number" /\ cnt.val > 0 THEN dec0
                                                                          ELSE hide0)
             counting == vis /\ cnt.kind = "number" /\ cnt.val > 0
             hiding == vis /\ cnt.kind = "number" /\ cnt.val <= 0
         IN  /\ timerRef' = IF counting THEN t ELSE timerRef
             /\ decTimers' = IF counting THEN dec0 \cup { t } ELSE dec0
             /\ hideTimers' = IF hiding THEN hide0 \cup { t } ELSE hide0
             /\ effectCleanup' = IF hiding THEN t ELSE 0

\* handleBusy of the banner, run by dispatchEvent, and the effect after it
handleBusy(detail) ==
  /\ busyVisible' = TRUE
  /\ busyCountdown' = OrElse(detail.retryAfter, Num(10))
  /\ CountdownEffect(TRUE, OrElse(detail.retryAfter, Num(10)), decTimers, hideTimers)

\* the error of the 503 branch
BusyError(res) ==
  [ message |-> IF res.detail # "" THEN res.detail
                ELSE "Server is currently busy. Please try again in a moment.",
    code |-> "SERVER_BUSY",
    retryAfter |-> parseInt(RetryAfterText(res.retryAfter)) ]

\* the catch of sendMessage and of sendVoice: alert(err.message)
CatchAlert(err) == IF err # NoErr THEN err.message ELSE "none"

\* request from its second test of res.status to its end, and the catch of
\* the Chat handler that awaited it
Settle(res) ==
  /\ apiPc' = "idle"
  /\ apiRes' = res
  /\ IF res.status = 401
       THEN /\ RemoveSession
            /\ LoadLoginPage
            /\ apiErr' = NewError("Unauthorized")
            /\ UNCHANGED << apiEvents, busyVisible, busyCountdown, bannerVars >>
     ELSE IF res.status = 503
       THEN /\ apiErr' = BusyError(res)
            /\ apiEvents' = Append(apiEvents, [ message |-> BusyError(res).message,
                                                retryAfter |-> BusyError(res).retryAfter ])
            /\ handleBusy([ message |-> BusyError(res).message,
                            retryAfter |-> BusyError(res).retryAfter ])
            /\ UNCHANGED << storage, href, authVars >>
     ELSE IF res.status \notin 200..299
       THEN /\ apiErr' = NewError(IF res.detail # "" THEN res.detail
                                  ELSE StatusMessage(res.status))
            /\ UNCHANGED << storage, href, authVars, apiEvents, busyVisible,
                            busyCountdown, bannerVars >>
     ELSE /\ apiErr' = NoErr
          /\ UNCHANGED << storage, href, authVars, apiEvents, busyVisible,
                          busyCountdown, bannerVars >>
  /\ apiAlert' = CatchAlert(apiErr')

\* whether the 401 branch, the refresh answered, fetches the original request
\* again
RetryAfterRefresh_Always(outcome) == TRUE
RetryAfterRefresh(outcome) == outcome = "ok"

\* sendMessage or sendVoice calls chatAPI.sendText or chatAPI.sendVoice:
\* request fetches the path
RequestStart(call) ==
  /\ href = "/chat"
  /\ apiPc = "idle"
  /\ apiPc' = "fetch"
  /\ apiCall' = call
  /\ apiLog' = << Fetched(PathOf(call)) >>
  /\ apiRes' = NoRes
  /\ apiErr' = NoErr
  /\ apiEvents' = <<>>
  /\ apiAlert' = "none"
  /\ UNCHANGED << storage, href, busyVisible, busyCountdown, bannerVars >>
  /\ UNCHANGED << textVars, wfVars, chatVars, demoVars, moreVars >>

\* the first fetch is answered: a 401 starts the refresh when a refresh token
\* is stored, anything else goes on to the tests of the status
FirstResponse(res) ==
  /\ apiPc = "fetch"
  /\ IF res.status = 401 /\ lsRefreshToken
       THEN /\ apiPc' = "refresh"
            /\ apiRes' = res
            /\ apiLog' = apiLog \o << Answered(PathOf(apiCall), res.status),
                                      Fetched("/auth/refresh") >>
            /\ UNCHANGED << storage, href, authVars, apiErr, apiEvents, apiAlert,
                            busyVisible, busyCountdown, bannerVars >>
       ELSE /\ apiLog' = Append(apiLog, Answered(PathOf(apiCall), res.status))
            /\ Settle(res)
  /\ UNCHANGED << apiCall, textVars, wfVars, chatVars, demoVars, restVars >>

\* the first fetch rejects (no network): request rejects with that error
FirstRejected ==
  /\ apiPc = "fetch"
  /\ apiPc' = "idle"
  /\ apiLog' = Append(apiLog, Rejected(PathOf(apiCall)))
  /\ apiErr' = NewError("Failed to fetch")
  /\ apiAlert' = CatchAlert(apiErr')
  /\ UNCHANGED << storage, href, apiCall, apiRes, apiEvents, busyVisible,
                  busyCountdown, bannerVars >>
  /\ UNCHANGED << textVars, wfVars, chatVars, demoVars, moreVars >>

\* what the log gets when the refresh ends
RefreshEntry(outcome) ==
  CASE outcome = "network" -> Rejected("/auth/refresh")
    [] outcome = "401" -> Answered("/auth/refresh", 401)
    [] outcome = "503" -> Answered("/auth/refresh", 503)
    [] OTHER -> Answered("/auth/refresh", 200)

\* the refresh ends: answered ok, the tokens are stored and the original
\* request is fetched again; otherwise res is still the 401
RefreshDone(outcome) ==
  /\ apiPc = "refresh"
  /\ IF RetryAfterRefresh(outcome)
       THEN /\ apiPc' = "retry"
            /\ StoreSession("refresh")
            /\ apiLog' = apiLog \o << RefreshEntry(outcome), Fetched(PathOf(apiCall)) >>
            /\ UNCHANGED << href, authVars, apiRes, apiErr, apiEvents, apiAlert,
                            busyVisible, busyCountdown, bannerVars >>
       ELSE /\ apiLog' = Append(apiLog, RefreshEntry(outcome))
            /\ Settle(apiRes)
  /\ UNCHANGED << apiCall, textVars, wfVars, chatVars, demoVars, restVars >>

\* the second fetch of the original request is answered
RetryResponse(res) ==
  /\ apiPc = "retry"
  /\ apiLog' = Append(apiLog, Answered(PathOf(apiCall), res.status))
  /\ Settle(res)
  /\ UNCHANGED << apiCall, textVars, wfVars, chatVars, demoVars, restVars >>

\* (variant: the rejection of the second fetch is thrown on, res is not
\* looked at again)
RetryRejected_Rethrows ==
  /\ apiPc = "retry"
  /\ apiPc' = "idle"
  /\ apiLog' = Append(apiLog, Rejected(PathOf(apiCall)))
  /\ apiErr' = NewError("Failed to fetch")
  /\ apiAlert' = CatchAlert(apiErr')
  /\ UNCHANGED << storage, href, apiCall, apiRes, apiEvents, busyVisible, busyCountdown, bannerVars >>
  /\ UNCHANGED << textVars, wfVars, chatVars, demoVars, moreVars >>

\* the second fetch rejects: the catch around the refresh swallows it and res
\* is still the 401
RetryRejected ==
  /\ apiPc = "retry"
  /\ apiLog' = Append(apiLog, Rejected(PathOf(apiCall)))
  /\ Settle(apiRes)
  /\ UNCHANGED << apiCall, textVars, wfVars, chatVars, demoVars, restVars >>

\* what localStorage holds besides the session, and what request keeps
apiLocals == << apiPc, apiCall, apiLog, apiRes, apiErr, apiEvents, apiAlert, busyVisible,
                busyCountdown, bannerVars >>
otherVars == << textVars, wfVars, chatVars, demoVars, restVars >>

\* how the authAPI.logout() call that logout awaits ends: answered ok,
\* failed (an error status, no network), ended in the 401 branch of request,
\* or answered after request refreshed the tokens
LogoutOutcomes == { "ok", "failed", "unauthorized", "refreshed" }

\* click on the logout entry of the navbar: logout up to its await
LogoutClick ==
  /\ user
  /\ logoutPc # "pending"
  /\ logoutPc' = "pending"
  /\ UNCHANGED << user, mePc, meUndidLogin, apiVars, otherVars >>

\* whether logout goes on to clear the session when authAPI.logout() ended
\* that way: try { await authAPI.logout(); } catch { /* ignore */ }
LogoutClears_OnSuccess(outcome) == outcome \in { "ok", "refreshed" }
LogoutClears(outcome) == TRUE

\* authAPI.logout() has ended: the rest of logout
Logout(outcome) ==
  /\ logoutPc = "pending"
  /\ logoutPc' = outcome
  /\ IF LogoutClears(outcome)
       THEN RemoveSession /\ user' = FALSE
       ELSE UNCHANGED << storage, user >>
  /\ href' = IF outcome = "unauthorized" \/ (LogoutClears(outcome) /\ href = "/chat")
               THEN "/login" ELSE href
  /\ mePc' = IF outcome = "unauthorized" THEN "none" ELSE mePc
  /\ UNCHANGED << meUndidLogin, apiLocals, otherVars >>

\* the login page submits, the login succeeds and it navigates to the chat
LoginSubmit ==
  /\ href = "/login"
  /\ StoreSession("login")
  /\ user' = TRUE
  /\ href' = "/chat"
  /\ UNCHANGED << mePc, logoutPc, meUndidLogin, apiLocals, otherVars >>

\* the authAPI.me() call of the mount effect resolves: setUser(u) and
\* ekodi_user is written
MeResolve ==
  /\ mePc = "pending"
  /\ mePc' = "done"
  /\ user' = TRUE
  /\ lsUser' = TRUE
  /\ UNCHANGED << lsToken, lsRefreshToken, lsFrom, href, logoutPc, meUndidLogin, apiLocals,
                  otherVars >>

\* it rejects (an error status, no network): the session is removed
MeReject ==
  /\ mePc = "pending"
  /\ mePc' = "done"
  /\ RemoveSession
  /\ user' = FALSE
  /\ meUndidLogin' = (meUndidLogin \/ lsFrom = "login")
  /\ href' = IF href = "/chat" THEN "/login" ELSE href
  /\ UNCHANGED << logoutPc, apiLocals, otherVars >>

\* it is answered 401 and request ends in its 401 branch
MeUnauthorized ==
  /\ mePc = "pending"
  /\ RemoveSession
  /\ href' = "/login"
  /\ user' = FALSE
  /\ mePc' = "none"
  /\ logoutPc' = "idle"
  /\ meUndidLogin' = (meUndidLogin \/ lsFrom = "login")
  /\ UNCHANGED << apiLocals, otherVars >>

\* dismiss of the banner
BannerDismiss ==
  /\ busyVisible
  /\ busyVisible' = FALSE
  /\ busyCountdown' = Num(0)
  /\ CountdownEffect(FALSE, Num(0), decTimers, hideTimers)
  /\ UNCHANGED << storage, href, apiPc, apiCall, apiLog, apiRes, apiErr, apiEvents,
                  apiAlert >>
  /\ UNCHANGED << textVars, wfVars, chatVars, demoVars, moreVars >>

(* ------------------------- the server-busy banner ------------------------- *)
\* the retryAfter values request puts into the event: parseInt of the
\* Retry-After header or of '10'
BusyRetryAfters == { parseInt(RetryAfterText(h)) : h \in RetryAfterHeaders }

\* an 'ekodi-server-busy' event reaches the banner
BusyEvent(retryAfter) ==
  /\ busyEvents < MaxEvents
  /\ busyEvents' = busyEvents + 1
  /\ busyDetail' = retryAfter
  /\ handleBusy([ message |-> "", retryAfter |-> retryAfter ])
  /\ UNCHANGED << storage, href, apiPc, apiCall, apiLog, apiRes, apiErr, apiEvents,
                  apiAlert >>
  /\ UNCHANGED << textVars, wfVars, chatVars, demoVars, authVars, mimeVars, raceVars >>

\* a decrement timeout fires after 1000 ms: setCountdown((c) => c - 1)
BannerTick(t) ==
  /\ t \in decTimers
  /\ busyCountdown' = Num(busyCountdown.val - 1)
  /\ CountdownEffect(busyVisible, Num(busyCountdown.val - 1), decTimers \ { t },
                     hideTimers)
  /\ UNCHANGED << storage, href, apiPc, apiCall, apiLog, apiRes, apiErr, apiEvents,
                  apiAlert, busyVisible >>
  /\ UNCHANGED << textVars, wfVars, chatVars, demoVars, moreVars >>

\* a hide timeout fires after 2000 ms: setVisible(false)
BannerHide(t) ==
  /\ t \in hideTimers
  /\ busyVisible' = FALSE
  /\ CountdownEffect(FALSE, busyCountdown, decTimers, hideTimers \ { t })
  /\ UNCHANGED << storage, href, apiPc, apiCall, apiLog, apiRes, apiErr, apiEvents,
                  apiAlert, busyCountdown >>
  /\ UNCHANGED << textVars, wfVars, chatVars, demoVars, moreVars >>

BannerTimer ==
  \/ \E t \in decTimers : BannerTick(t)
  \/ \E t \in hideTimers : BannerHide(t)

NextBanner ==
  \/ \E retryAfter \in BusyRetryAfters : BusyEvent(retryAfter)
  \/ \E t \in decTimers : BannerTick(t)
  \/ \E t \in hideTimers : BannerHide(t)
  \/ BannerDismiss

\* pending timeouts fire
SpecBanner == Init /\ [][NextBanner]_vars /\ WF_vars(BannerTimer)

(* ------------------------- concurrent requests ------------------------- *)
\* the 401 branch of request in call c: the session is removed and the login
\* page is loaded, which ends whatever the old page awaited
RaceUnauthorized(c) ==
  /\ rcRemoved' = [rcRemoved EXCEPT ![c] = lsFrom]
  /\ RemoveSession
  /\ LoadLoginPage
  /\ rcPc' = [d \in Calls |-> IF d = c THEN "rejected" ELSE
                              IF rcPc[d] \in { "fetch", "refresh", "retry" } THEN "gone"
                              ELSE rcPc[d]]

\* a call of request starts on the chat page (listConversations,
\* getConversation): it fetches with the stored access token
RaceStart(c) ==
  /\ href = "/chat"
  /\ lsToken
  /\ rcPc[c] \notin { "fetch", "refresh", "retry" }
  /\ rcPc' = [rcPc EXCEPT ![c] = "fetch"]
  /\ rcToken' = [rcToken EXCEPT ![c] = lsFrom]
  /\ rcRefresh' = [rcRefresh EXCEPT ![c] = "none"]
  /\ rcRemoved' = [rcRemoved EXCEPT ![c] = "none"]
  /\ UNCHANGED << apiVars, authVars, mimeVars, eventVars, textVars, wfVars, chatVars, demoVars >>

\* its first fetch is answered: 401 (the access token has expired) or ok
RaceResponse(c, status) ==
  /\ rcPc[c] = "fetch"
  /\ IF status = 401 /\ lsRefreshToken
       THEN /\ rcPc' = [rcPc EXCEPT ![c] = "refresh"]
            /\ rcRefresh' = [rcRefresh EXCEPT ![c] = lsFrom]
            /\ UNCHANGED << storage, href, authVars, rcRemoved >>
     ELSE IF status = 401
       THEN /\ RaceUnauthorized(c)
            /\ UNCHANGED rcRefresh
     ELSE /\ rcPc' = [rcPc EXCEPT ![c] = "resolved"]
          /\ UNCHANGED << storage, href, authVars, rcRefresh, rcRemoved >>
  /\ UNCHANGED << rcToken, apiLocals, mimeVars, eventVars, textVars, wfVars, chatVars, demoVars >>

\* its POST to /auth/refresh ends: answered ok, the new session is stored and
\* the request is fetched again; otherwise res is still the 401
RaceRefreshDone(c, ok) ==
  /\ rcPc[c] = "refresh"
  /\ IF ok
       THEN /\ StoreSession(CallName(c))
            /\ rcPc' = [rcPc EXCEPT ![c] = "retry"]
            /\ UNCHANGED << href, authVars, rcRemoved >>
       ELSE RaceUnauthorized(c)
  /\ UNCHANGED << rcToken, rcRefresh, apiLocals, mimeVars, eventVars, textVars, wfVars, chatVars,
                  demoVars >>

\* its second fetch is answered
RaceRetryResponse(c, status) ==
  /\ rcPc[c] = "retry"
  /\ IF status = 401
       THEN RaceUnauthorized(c)
       ELSE /\ rcPc' = [rcPc EXCEPT ![c] = "resolved"]
            /\ UNCHANGED << storage, href, authVars, rcRemoved >>
  /\ UNCHANGED << rcToken, rcRefresh, apiLocals, mimeVars, eventVars, textVars, wfVars, chatVars,
                  demoVars >>

(* --------------------------- recorder encoding ------------------------- *)
\* the types a browser may be asked about
MimeTypes == { "audio/webm;codecs=opus", "audio/webm", "audio/mp4", "audio/ogg", "audio/wav" }
\* the list bestMime walks through
DemoPreference == << "audio/webm;codecs=opus", "audio/webm", "audio/mp4", "audio/ogg" >>
\* the types Chat.jsx chooses between
ChatPreference == << "audio/webm", "audio/mp4" >>

\* bestMime() of app.js
RECURSIVE FirstSupported(_, _)
FirstSupported(list, types) ==
  IF list = <<>> THEN ""
  ELSE IF Head(list) \in types THEN Head(list)
  ELSE FirstSupported(Tail(list), types)
bestMime(types) == FirstSupported(DemoPreference, types)

\* MediaRecorder.isTypeSupported('audio/webm') ? 'audio/webm' : 'audio/mp4'
ChatMimeType(types) == IF "audio/webm" \in types THEN "audio/webm" ELSE "audio/mp4"

\* toggleRecording constructs its MediaRecorder
ChatNewRecorder ==
  /\ chatMime' = ChatMimeType(supported)
  /\ chatMime' # chatMime
  /\ UNCHANGED << supported, demoMime >>
  /\ UNCHANGED << textVars, wfVars, apiVars, authVars, raceVars, eventVars, chatVars, demoVars >>

\* startRec constructs its MediaRecorder
DemoNewRecorder ==
  /\ demoMime' = bestMime(supported)
  /\ demoMime' # demoMime
  /\ UNCHANGED << supported, chatMime >>
  /\ UNCHANGED << textVars, wfVars, apiVars, authVars, raceVars, eventVars, chatVars, demoVars >>

(* ---------------------------- specifications --------------------------- *)
\* sizes of the chunks a recorder delivers
ChunkSizes == { 0, 1, 2, 4999 }

\* the capture sessions from click to upload
Next ==
  \/ MicClick
  \/ \E s \in Sessions : GumReject(s)
  \/ \E s \in Sessions, fail \in Failures : GumResolve(s, fail)
  \/ \E s \in Sessions, size \in ChunkSizes : DataAvailable(s, size)
  \/ \E s \in Sessions : RecorderOnStop(s)
  \/ \E msgId \in MsgIds \cup { 0 } : VoiceDone(msgId)
  \/ Unmount

Spec == Init /\ [][Next]_vars

\* the capture sessions with their VAD monitors, in time
NextVAD ==
  \/ MicClick
  \/ \E s \in Sessions : GumReject(s)
  \/ \E s \in Sessions, fail \in Failures : GumResolve(s, fail)
  \/ \E s \in Sessions : RecorderOnStop(s)
  \/ Unmount
  \/ \E snap \in Snapshots : Tick(snap)
  \/ \E s \in Sessions : VadPoll(s)

SpecVAD == Init /\ [][NextVAD]_vars

\* the capture sessions of the demo client
NextDemo ==
  \/ DemoToggleRec
  \/ DemoEscape
  \/ \E s \in Sessions : DemoGumReject(s)
  \/ \E s \in Sessions, fail \in { "none", "recorder", "start" } : DemoGumResolve(s, fail)
  \/ \E s \in Sessions, size \in ChunkSizes : DemoOnStop(s, size)
  \/ DemoSendText
  \/ \E withAudio \in BOOLEAN : DemoResponse(withAudio)
  \/ DemoReplay
  \/ \E p \in Plays, ok \in BOOLEAN : DemoPlaySettled(p, ok)
  \/ \E p \in Plays : DemoAudioEnded(p)

SpecDemo == Init /\ [][NextDemo]_vars

\* the submissions of the Chat component: text and voice
NextSubmit ==
  \/ Next
  \/ TypeText
  \/ SendClick
  \/ TextDone(0)
  \/ ReplaceMessages

SpecSubmit == Init /\ [][NextSubmit]_vars

\* capture sessions and playbacks of the Chat component side by side
NextFrame ==
  \/ MicClick
  \/ \E s \in Sessions : GumReject(s)
  \/ \E s \in Sessions, fail \in Failures : GumResolve(s, fail)
  \/ \E s \in Sessions : RecorderOnStop(s)
  \/ \E msgId \in MsgIds : PlayClick(msgId)
  \/ \E p \in Plays : AudioPlayStarted(p)
  \/ \E p \in Plays : AudioPlayRejected(p)
  \/ \E p \in Plays : AudioEnded(p)

SpecFrame == Init /\ [][NextFrame]_vars

\* one AudioWaveform instance
NextWave ==
  \/ \E on \in BOOLEAN : WfPropsChange(on)
  \/ \E f \in FrameIds \X Effects : WfFrame(f)
  \/ WfUnmount

SpecWave == InitWave /\ [][NextWave]_vars

\* the playbacks of both clients
NextPlay ==
  \/ \E msgId \in MsgIds : PlayClick(msgId)
  \/ \E p \in Plays : AudioPlayStarted(p)
  \/ \E p \in Plays : AudioPlayRejected(p)
  \/ \E p \in Plays : AudioEnded(p)
  \/ DemoSendText
  \/ \E withAudio \in BOOLEAN : DemoResponse(withAudio)
  \/ DemoReplay
  \/ DemoEscape
  \/ \E p \in Plays, ok \in BOOLEAN : DemoPlaySettled(p, ok)
  \/ \E p \in Plays : DemoAudioEnded(p)

SpecPlay == Init /\ [][NextPlay]_vars

\* from capture to upload in both clients: what becomes of the blob
NextBlob ==
  \/ MicClick
  \/ \E s \in Sessions : GumResolve(s, "none")
  \/ \E s \in Sessions, size \in ChunkSizes : DataAvailable(s, size)
  \/ \E s \in Sessions : RecorderOnStop(s)
  \/ VoiceDone(0)
  \/ DemoToggleRec
  \/ \E s \in Sessions : DemoGumResolve(s, "none")
  \/ \E s \in Sessions, size \in ChunkSizes : DemoOnStop(s, size)
  \/ DemoResponse(FALSE)

SpecBlob == Init /\ [][NextBlob]_vars

\* the calls of the api client from the chat page
NextApi ==
  \/ \E call \in { "sendText", "sendVoice" } : RequestStart(call)
  \/ \E res \in Responses : FirstResponse(res)
  \/ FirstRejected
  \/ \E outcome \in RefreshOutcomes : RefreshDone(outcome)
  \/ \E res \in Responses : RetryResponse(res)
  \/ RetryRejected
  \/ LogoutClick
  \/ \E outcome \in LogoutOutcomes : Logout(outcome)
  \/ LoginSubmit
  \/ MeResolve
  \/ MeReject
  \/ MeUnauthorized
  \/ BannerDismiss
SpecApi == Init /\ [][NextApi]_vars

\* a step of a running call of request: one of its fetches settles
RequestStep ==
  \/ \E res \in Responses : FirstResponse(res)
  \/ FirstRejected
  \/ \E outcome \in RefreshOutcomes : RefreshDone(outcome)
  \/ \E res \in Responses : RetryResponse(res)
  \/ RetryRejected
\* the same, every fetch settling in the end
SpecApiLive == SpecApi /\ WF_vars(RequestStep)


\* the choice of the recorder's encoding, whatever the browser supports
InitMime == \E types \in SUBSET MimeTypes : InitOf(<< 0, 0, 1 >>, types)
NextMime ==
  \/ ChatNewRecorder
  \/ DemoNewRecorder
SpecMime == InitMime /\ [][NextMime]_vars

\* two calls of request side by side, and logging in again
NextRace ==
  \/ \E c \in Calls : RaceStart(c)
  \/ \E c \in Calls, status \in { 200, 401 } : RaceResponse(c, status)
  \/ \E c \in Calls, ok \in BOOLEAN : RaceRefreshDone(c, ok)
  \/ \E c \in Calls, status \in { 200, 401 } : RaceRetryResponse(c, status)
  \/ LoginSubmit
SpecRace == Init /\ [][NextRace]_vars

(* ------------------------------- claims -------------------------------- *)
Stopped(s) == phase[s] \in { "stopping", "finalized" }

\* C1: at most one microphone stream is open in every reachable state, also
\* when the mic button is clicked again while getUserMedia is still pending.
C1_SingleMicStream ==
  Cardinality({ s \in Sessions : stream[s] = "live" }) <= 1

\* the playback is live: its element plays, or is about to, into an open
\* audio graph
Active(p) == playCtx[p] = "running" /\ audio[p] \in { "starting", "playing" }

\* the element of the demo client plays, or is about to
DemoActive(p) == dAudio[p] \in { "starting", "playing" }

\* C2: every call of playAudio leaves exactly one playback active, the new
\* one: the audio graph of every earlier playback is torn down, and the
\* highlighted message and the analyser tap are those of the new playback;
\* in every state at most one playback has an open audio graph.  In the demo
\* client every call of playB64 leaves exactly one element playing, the new
\* one, and in every state at most one element plays.
C2_SinglePlayback ==
  /\ [](Cardinality({ p \in Plays : playCtx[p] = "running" }) <= 1)
  /\ [][nextPlay' # nextPlay =>
         /\ \A q \in Plays :
              (playCtx'[q] = "running" /\ audio'[q] \in { "starting", "playing" })
                <=> q = nextPlay
         /\ \A q \in Plays : q # nextPlay => playCtx'[q] # "running"
         /\ playingMsgId' = playMsg'[nextPlay]
         /\ playAnalyser' = nextPlay]_vars
  /\ [](Cardinality({ p \in Plays : DemoActive(p) }) <= 1)
  /\ [][dNextPlay' # dNextPlay =>
         /\ \A q \in Plays :
              dAudio'[q] \in { "starting", "playing" } <=> q = dNextPlay
         /\ dCurrentAudio' = dNextPlay]_vars

\* in each client a playback started while the previous one was still playing
C2_Witness ==
  /\ \E p \in Plays :
       /\ p > 1
       /\ Active(p)
       /\ audio[p - 1] = "playing"
       /\ playCtx[p - 1] = "closed"
       /\ playingMsgId = playMsg[p]
  /\ \E p \in Plays :
       /\ p > 1
       /\ DemoActive(p)
       /\ dAudio[p - 1] = "paused"

\* C3: the stream of a capture session is released on every exit path: once
\* the session has been finalized after a stop, has failed after getUserMedia
\* succeeded, or the component has unmounted, its stream is not open.
C3_StreamReleased ==
  \A s \in Sessions :
    (phase[s] \in { "finalized", "failed" } \/ ~mounted) => stream[s] # "live"

\* C4: a monitor whose polls read silence for at least VAD_SILENCE_DURATION,
\* the silent run beginning no earlier than VAD_MIN_SPEECH_TIME after its
\* start, has invoked stopRecording exactly once.
C4_SustainedSilenceStopsOnce ==
  \A s \in Sessions : hist[s].sustained => hist[s].vadStops = 1

\* C5: a monitor none of whose polls read a level below the threshold never
\* invokes stopRecording, and as long as no poll at all read a level below
\* the threshold every recording that ended was ended by a manual stop.
C5_SpeechNeverAutoStops ==
  /\ \A s \in Sessions : ~hist[s].heardSilence => hist[s].vadStops = 0
  /\ (\A s \in Sessions : ~hist[s].heardSilence) =>
       \A s \in Sessions : Stopped(s) => hist[s].manual

C5_Witness ==
  \E s \in Sessions :
    /\ ~hist[s].heardSilence
    /\ now - startTime[s] >= VAD_MIN_SPEECH_TIME + VAD_SILENCE_DURATION
    /\ vadTimer[s] = "active"
    /\ phase[s] = "recording"

\* C6: no monitor invokes stopRecording earlier than VAD_MIN_SPEECH_TIME +
\* VAD_SILENCE_DURATION after its start, and a monitor whose polls read
\* silence for the first 400 ms, then speech three times, then silence for
\* 1900 ms has invoked it exactly once.
C6_EarlySilenceNotCounted ==
  \A s \in Sessions :
    /\ ~hist[s].firedEarly
    /\ hist[s].pat = "done" => hist[s].vadStops = 1

\* C7: the stop of a session's recorder is triggered at most once, whatever
\* the interleaving of VAD polls and mic clicks.
C7_StopAtMostOnce ==
  \A s \in Sessions : hist[s].stopCalls <= 1

\* C8: once a session's recorder has been stopped its VAD timer is cancelled:
\* the timer is not running and no poll of that session has run since.
C8_StopCancelsVad ==
  \A s \in Sessions :
    Stopped(s) => ~Alive(vadTimer[s]) /\ hist[s].pollsAfterStop = 0

\* a session stopped by a click while its next poll was already due
C8_Witness ==
  \E s \in Sessions : Stopped(s) /\ hist[s].stoppedDue /\ vadTimer[s] = "cleared"

\* C9: silentSince is set only to the time of a poll taken at least
\* VAD_MIN_SPEECH_TIME after the session's start, and only while every poll
\* since then read a level below the threshold: a poll at or above the
\* threshold leaves it null.
C9_SilentSinceInvariant ==
  \A s \in Sessions :
    /\ silentSince[s] # Null =>
         /\ silentSince[s] - startTime[s] >= VAD_MIN_SPEECH_TIME
         /\ silentSince[s] <= now
         /\ hist[s].run # Null
         /\ hist[s].run # Early => hist[s].run = silentSince[s]
    /\ (Alive(vadTimer[s]) /\ hist[s].run = Null) => silentSince[s] = Null

\* a silent run marked after speech had reset the marker
C9_Witness ==
  \E s \in Sessions :
    /\ silentSince[s] # Null
    /\ silentSince[s] - startTime[s] > VAD_MIN_SPEECH_TIME
    /\ now > silentSince[s]

C11_SingleSubmission == inflight + textInflight <= 1

\* C12: every finalized session whose blob is submittable has caused exactly
\* one upload, and whenever the response of an upload arrives, success or
\* failure, the client is idle afterwards: loading and recording are false.
C12_UploadThenIdle ==
  /\ [](\A s \in Sessions :
          (phase[s] = "finalized" /\ hist[s].blobSize > MIN_BLOB_SIZE)
            => hist[s].uploads = 1)
  /\ [][inflight' < inflight => (~loading' /\ ~recording')]_vars

\* C13: when the element of a playback reaches the end of its audio, the
\* highlighted message and the analyser tap are cleared and the audio context
\* of that playback is closed, so the playback is no longer active; when the
\* element of the demo client ends, isPlaying is cleared.
C13_EndedClearsPlayback ==
  /\ [][\A p \in Plays :
          (audio[p] = "playing" /\ audio'[p] = "ended") =>
            /\ playingMsgId' = 0
            /\ playAnalyser' = 0
            /\ playCtx'[p] = "closed"]_vars
  /\ [](\A p \in Plays : audio[p] = "ended" => playCtx[p] = "closed")
  /\ [][\A p \in Plays :
          (dAudio[p] = "playing" /\ dAudio'[p] = "ended") => ~dIsPlaying']_vars

\* in each client a playback has ended while it was the current one
C13_Witness ==
  /\ \E p \in Plays :
       /\ audio[p] = "ended" /\ audioCtxRef = p
       /\ playingMsgId = 0 /\ playAnalyser = 0 /\ playCtx[p] = "closed"
  /\ \E p \in Plays : dAudio[p] = "ended" /\ dCurrentAudio = p /\ ~dIsPlaying

\* what playAudio lets its caller and the user see of a playback: it returns
\* nothing, so the highlighted message and the analyser tap are all there is
PlaybackView == << playingMsgId, playAnalyser >>

\* C14: when audio.play() is rejected the condition is surfaced: the client
\* is then in a state that shows it, one that differs from the state in which
\* no playback was requested or the last one ended normally.
C14_BlockedSurfaced ==
  \A p \in Plays :
    (audioCtxRef = p /\ audio[p] = "blocked") => PlaybackView # << 0, 0 >>

\* C15: a step that changes the recording state (the recorder, the stream,
\* the VAD timer, the recording flag: starting or stopping a recording) leaves
\* the playback state unchanged, and a step that starts a playback leaves the
\* recording state unchanged.
C15_RecordingPlaybackIndependent ==
  [][/\ recVars' # recVars => UNCHANGED playVars
     /\ nextPlay' # nextPlay => UNCHANGED recVars]_vars

\* a recording runs beside an active playback, after an earlier session was
\* stopped and finalized
C15_Witness ==
  /\ recording
  /\ \E s \in Sessions : phase[s] = "finalized"
  /\ \E p \in Plays : Active(p) /\ playingMsgId = playMsg[p] /\ playAnalyser = p

\* C16: at any time at most one animation frame of the instance is pending;
\* once the cleanup of an effect has run none of its frames is pending and no
\* draw of it runs any more; after unmount nothing is pending.
C16_WaveformStops ==
  /\ Cardinality(wfPending) <= 1
  /\ \A f \in wfPending : f[2] \notin wfCleaned
  /\ ~wfLateDraw
  /\ ~wfMounted => wfPending = {}

\* the instance was unmounted while a loop that had drawn frames was running,
\* after an earlier loop had been replaced
C16_Witness ==
  /\ ~wfMounted
  /\ Cardinality(wfCleaned) >= 2
  /\ rafRef > Cardinality(wfCleaned)

\* C17: for every bin value in 0..255, every canvas height and every device
\* pixel ratio the bar a draw paints is at least 2 px times the ratio high,
\* hence never zero or negative, and a bin of value zero yields exactly that
\* minimum.
C17_BarHeightFloor ==
  wfBar # Null =>
    /\ wfBar >= 2 * Dpr(wfScene[3]) * 2550
    /\ wfBar > 0
    /\ wfScene[1] = 0 => wfBar = 2 * Dpr(wfScene[3]) * 2550

\* a draw has painted the bar of a zero bin on a canvas that has a height, and
\* it is 2 px times the ratio high
C17_Witness ==
  /\ wfBar # Null
  /\ wfScene[1] = 0 /\ wfScene[2] > 0 /\ wfScene[3] = 2
  /\ wfBar = 4 * 2550

\* C18: a failed start of capture is reported as a permission denial exactly
\* when microphone access was denied; any other failure (no input device, an
\* error after the stream was acquired) is reported as something else.
C18_StartFailureKinds ==
  \A s \in Sessions :
    /\ hist[s].cause # "none" =>
         (hist[s].alert = "Microphone access denied"
            <=> hist[s].cause = "NotAllowedError")
    /\ dHist[s].cause # "none" =>
         (dHist[s].alert = "mic_denied" <=> dHist[s].cause = "NotAllowedError")

\* how often the log of the last call fetches the path
Sends(log, path) == Cardinality({ i \in 1..Len(log) : log[i] = Fetched(path) })

\* C19 as stated: for each call of chatAPI.sendText or chatAPI.sendVoice the
\* original request is fetched at most once, and a call that failed has
\* alerted, with the detail of the server's answer when the answer has one.
C19_Original ==
  /\ Sends(apiLog, PathOf(apiCall)) <= 1
  /\ (apiPc = "idle" /\ apiErr # NoErr) =>
       /\ apiAlert # "none"
       /\ apiRes.detail # "" => apiAlert = apiRes.detail

\* C19: for each call of chatAPI.sendText or chatAPI.sendVoice the original
\* request is fetched at most twice, the second time only right after the
\* first was answered 401 and the token refresh was answered ok, never after
\* any other answer or failure; a call that failed has alerted the message of
\* its error, which is the detail of the server's answer when the answer is
\* not a 401 and has one, and "Unauthorized" for a 401; a call that succeeded
\* has alerted nothing.
C19_ResendOnlyAfterRefresh ==
  /\ Sends(apiLog, PathOf(apiCall)) <= 2
  /\ \A i \in 2..Len(apiLog) :
       apiLog[i] = Fetched(PathOf(apiCall)) =>
         /\ i = 5
         /\ apiLog[2] = Answered(PathOf(apiCall), 401)
         /\ apiLog[3] = Fetched("/auth/refresh")
         /\ apiLog[4] = Answered("/auth/refresh", 200)
  /\ (apiPc = "idle" /\ apiErr # NoErr) =>
       /\ apiAlert # "none"
       /\ apiAlert = apiErr.message
       /\ (apiRes.status \notin { 0, 401 } /\ apiRes.detail # "") =>
            apiAlert = apiRes.detail
       /\ apiRes.status = 401 => apiAlert = "Unauthorized"
  /\ (apiPc = "idle" /\ apiErr = NoErr) => apiAlert = "none"

\* a call fetched its request twice, the second answer was a 500 with a
\* detail, and the detail was alerted
C19_Witness ==
  /\ apiPc = "idle"
  /\ Sends(apiLog, PathOf(apiCall)) = 2
  /\ apiRes.status = 500
  /\ apiRes.detail # ""
  /\ apiAlert = apiRes.detail

\* the number a string of decimal digits denotes
IsDecimal(str) == str # <<>> /\ \A i \in 1..Len(str) : IsDigit(str[i])
RECURSIVE DecimalValue(_)
DecimalValue(str) ==
  IF str = <<>> THEN 0
  ELSE 10 * DecimalValue(SubSeq(str, 1, Len(str) - 1)) + DigitValue(str[Len(str)])

\* C20: a call whose answer has status 503 has dispatched exactly one
\* 'ekodi-server-busy' event, which carries a retry-after duration (a number:
\* the value of the Retry-After header when it is a number of seconds, 10 when
\* the header is absent), and has rejected with the code SERVER_BUSY; a call
\* with any other answer, or still waiting, has dispatched none.
C20_BusyEvent ==
  IF apiPc = "idle" /\ apiRes.status = 503
    THEN /\ Len(apiEvents) = 1
         /\ apiErr.code = "SERVER_BUSY"
         /\ apiEvents[1].retryAfter.kind = "number"
         /\ ~apiRes.retryAfter.present => apiEvents[1].retryAfter = Num(10)
         /\ IsDecimal(apiRes.retryAfter.value) =>
              apiEvents[1].retryAfter = Num(DecimalValue(apiRes.retryAfter.value))
    ELSE apiEvents = <<>>

\* the first entry of a list that is among the types, "" when none is
FirstOf(list, types) ==
  IF \E i \in 1..Len(list) : list[i] \in types
    THEN list[CHOOSE i \in 1..Len(list) :
           list[i] \in types /\ \A j \in 1..(i - 1) : list[j] \notin types]
    ELSE ""

\* C21: the encoding a client gives its recorder is the first entry of its
\* preference list that the browser reports as supported, and never a type
\* the browser reports as unsupported, whatever subset is supported.
C21_FirstSupportedEncoding ==
  /\ chatMime # "none" =>
       /\ chatMime # "" => chatMime \in supported
       /\ chatMime = FirstOf(ChatPreference, supported)
  /\ demoMime # "none" =>
       /\ demoMime # "" => demoMime \in supported
       /\ demoMime = FirstOf(DemoPreference, supported)

\* the same for the demo client alone
C21_DemoFirstSupported ==
  demoMime # "none" =>
    /\ demoMime # "" => demoMime \in supported
    /\ demoMime = FirstOf(DemoPreference, supported)

\* C22: the blob finalized for a capture session is the concatenation, in
\* arrival order, of exactly the non-empty chunks that session's recorder
\* delivered: none lost, none of another session, also when a new session was
\* started before the session's onstop ran.
C22_BlobIsOwnChunks ==
  \A s \in Sessions : hist[s].blobIntact # "no" /\ dHist[s].blobIntact # "no"

\* C23: the onstop handler of a capture session tears down only that session's
\* own resources: the step in which session s is finalized leaves the VAD
\* timer and the audio context of every other session as they were.
C23_OnStopOwnResources ==
  [][\A s \in Sessions :
       (phase[s] = "stopping" /\ phase'[s] = "finalized") =>
         \A q \in Sessions \ { s } :
           vadTimer'[q] = vadTimer[q] /\ recCtx'[q] = recCtx[q]]_vars

\* C24: while the newest playback is starting or playing, playAnalyser is its
\* analyser and playingMsgId is its message: no event of an earlier playback
\* has cleared them.
C24_NewestPlaybackShown ==
  \A p \in Plays :
    (p = nextPlay - 1 /\ audio[p] \in { "starting", "playing" }) =>
      /\ playAnalyser = p
      /\ playMsg[p] # 0 => playingMsgId = playMsg[p]

C26_RefreshedSessionKept ==
  \A c \in Calls : \A d \in Calls \ { c } : rcRemoved[c] # CallName(d)

\* the same, for the case of the claim only: both calls had sent the same
\* access token and the removing call had posted the refresh token that the
\* other call's refresh had used before
C26_UsedRefreshToken ==
  \A c \in Calls : \A d \in Calls \ { c } :
    ~(/\ rcRemoved[c] = CallName(d)
      /\ rcToken[c] = rcToken[d]
      /\ rcRefresh[c] = rcRefresh[d])

\* C27: whenever the user state is set, or ekodi_user is stored, an access
\* token is stored (a me() call that resolves after a logout restores
\* neither), and the end of the me() call never removes a session that a later
\* login stored.
C27_UserImpliesToken ==
  /\ user => lsToken
  /\ lsUser => lsToken
  /\ ~meUndidLogin

\* C28: the step that ends logout leaves ekodi_token, ekodi_refresh_token and
\* ekodi_user removed and the user state null, however the authAPI.logout()
\* call it awaited ended.
C28_LogoutClearsSession ==
  [][(logoutPc = "pending" /\ logoutPc' # "pending")
       => (~lsToken' /\ ~lsRefreshToken' /\ ~lsUser' /\ ~user')]_vars

\* a logout whose server call failed has ended with the session removed
C28_Witness ==
  /\ logoutPc = "failed"
  /\ ~lsToken /\ ~lsRefreshToken /\ ~lsUser /\ ~user

\* C29: while no chat submission is in flight the message list holds no
\* placeholder; at most one placeholder of each id exists at a time; and the
\* completion of a request, on success and on failure, leaves no placeholder
\* of its id.
C29_PlaceholdersTemporary ==
  /\ [](inflight + textInflight = 0 => messages = NoPlaceholders)
  /\ [](\A id \in Placeholders : messages[id] <= 1)
  /\ [][/\ textInflight' < textInflight => messages'["temp-user"] = 0
        /\ inflight' < inflight => messages'["temp-voice"] = 0]_vars

\* the parts of C29 taken alone
C29_NoneWhenIdle == inflight + textInflight = 0 => messages = NoPlaceholders
C29_AtMostOneEach == \A id \in Placeholders : messages[id] <= 1

\* what the claim gives the countdown after an event: its retryAfter, 10 when
\* it has none
C30_Expected(retryAfter) == IF retryAfter.kind = "number" THEN retryAfter ELSE Num(10)

\* C30: a busy event leaves the banner visible with countdown = retryAfter
\* (10 when missing), also during a countdown, which it restarts; the
\* countdown otherwise only decreases, by exactly 1 per timeout, and is never
\* below 0; at most one decrement timer is pending; and a visible banner
\* eventually hides.
C30_BannerCountdown ==
  /\ [][busyEvents' # busyEvents
          => (busyVisible' /\ busyCountdown' = C30_Expected(busyDetail'))]_vars
  /\ [][(busyEvents' = busyEvents /\ busyCountdown' # busyCountdown)
          => \/ busyCountdown'.val = busyCountdown.val - 1
             \/ ~busyVisible' /\ busyCountdown' = Num(0)]_vars
  /\ [](busyCountdown.kind = "number" /\ busyCountdown.val >= 0)
  /\ [](Cardinality(decTimers) <= 1)
  /\ [](busyVisible /\ busyCountdown.val > 0 => decTimers # {})
  /\ (busyVisible ~> ~busyVisible)

\* the parts of C30 taken alone
C30_CountdownSet ==
  [][busyEvents' # busyEvents
       => (busyVisible' /\ busyCountdown' = C30_Expected(busyDetail'))]_vars
C30_CountdownSetUnlessZero ==
  [][(busyEvents' # busyEvents /\ busyDetail' # Num(0))
       => (busyVisible' /\ busyCountdown' = C30_Expected(busyDetail'))]_vars
C30_Decrements ==
  [][(busyEvents' = busyEvents /\ busyCountdown' # busyCountdown)
       => \/ busyCountdown'.val = busyCountdown.val - 1
          \/ ~busyVisible' /\ busyCountdown' = Num(0)]_vars
C30_OneTimer ==
  /\ busyCountdown.kind = "number" /\ busyCountdown.val >= 0
  /\ Cardinality(decTimers) <= 1
  /\ Cardinality(hideTimers) <= 1
  /\ busyVisible /\ busyCountdown.val > 0 => decTimers # {}
  /\ busyVisible /\ busyCountdown.val = 0 => hideTimers # {}
C30_Hides == busyVisible ~> ~busyVisible

====
